---- MODULE Spec2Model ----
(***************************************************************************)
(* Model of carla_ros_bridge/ego_vehicle.py: the EgoVehicle relay between  *)
(* a simulated vehicle (carla actor) and the ROS graph.                    *)
(*                                                                         *)
(* State: the two flags of the relay, the channels (subscriptions and      *)
(* publishers) registered on the node, the control held by the simulated   *)
(* vehicle, the messages published so far, and the trace of the external   *)
(* calls made by the most recent handler.  One action per handler.         *)
(***************************************************************************)
EXTENDS Integers, Sequences, FiniteSets

VARIABLES
    vehicle_info_published,    \* self.vehicle_info_published
    vehicle_control_override,  \* self.vehicle_control_override
    channels,                  \* subscriptions and publishers registered on the node
    uid,                       \* self.uid, returned by get_id()
    ego_transform,             \* carla_actor.get_transform()
    wheels,                    \* carla_actor.get_physics_control().wheels (positions, cm)
    carla_control,             \* carla_actor.get_control()
    autopilot,                 \* argument of the last carla_actor.set_autopilot call
    callback_arg,              \* argument of the last control-applied callback call
    calls,                     \* external calls made by the most recent handler, in order
    sent,                      \* number of messages published, per publisher
    status_msg,                \* control echo of the last CarlaEgoVehicleStatus
    canbus_msg,                \* last Canbus message
    info_msg,                  \* wheel positions of the last CarlaEgoVehicleInfo
    n_update,                  \* number of update() calls made
    n_cmd,                     \* number of control commands received
    n_apply,                   \* number of carla_actor.apply_control calls
    n_callback,                \* number of control-applied callback calls
    base_destroyed,            \* Vehicle.destroy(self) has run
    event,                     \* the inbound event handled last
    enables,                   \* data of the override-enable messages delivered last
    last_accepted              \* the command accepted last (or the initial control)

vars == <<vehicle_info_published, vehicle_control_override, channels, uid,
          ego_transform, wheels, carla_control, autopilot, callback_arg, calls,
          sent, status_msg, canbus_msg, info_msg, n_update, n_cmd, n_apply,
          n_callback, base_destroyed, event, enables, last_accepted>>

-----------------------------------------------------------------------------
(* Bounds *)

MaxFrames == 3
MaxCmds == 3
MaxHistory == 3

-----------------------------------------------------------------------------
(* Rational arithmetic: a real number is a pair <<n, d>> with d > 0.       *)

Rat(n) == <<n, 1>>
RatDiv(a, k) == <<a[1], a[2] * k>>
RatNeg(a) == <<-a[1], a[2]>>
RatMul(a, b) == <<a[1] * b[1], a[2] * b[2]>>
RatAdd(a, b) == <<a[1] * b[2] + b[1] * a[2], a[2] * b[2]>>
RatEq(a, b) == a[1] * b[2] = b[1] * a[2]

-----------------------------------------------------------------------------
(* The channels created by the constructor *)

Subscriptions == {"control_subscriber", "manual_control_subscriber",
                  "control_override_subscriber", "enable_autopilot_subscriber"}

Publishers == {"vehicle_status_publisher", "vehicle_info_publisher",
               "ego_location_publisher", "canbus_publisher"}

(* carla.VehicleControl(): the default control *)
VehicleControl ==
    [throttle |-> 0, steer |-> 0, brake |-> 0, hand_brake |-> FALSE,
     reverse |-> FALSE, manual_gear_shift |-> FALSE, gear |-> 0]

(* CarlaEgoVehicleControl messages that may arrive (floats in tenths) *)
Commands ==
    { [throttle |-> 5, steer |-> 0, brake |-> 0, hand_brake |-> FALSE,
       reverse |-> FALSE, manual_gear_shift |-> FALSE, gear |-> 1],
      [throttle |-> 0, steer |-> -3, brake |-> 10, hand_brake |-> TRUE,
       reverse |-> FALSE, manual_gear_shift |-> TRUE, gear |-> 2],
      [throttle |-> 2, steer |-> 4, brake |-> 1, hand_brake |-> FALSE,
       reverse |-> TRUE, manual_gear_shift |-> TRUE, gear |-> -1] }

Uids == {1, 2}

(* Vehicle transforms: location in metres, yaw in quarter turns *)
Transforms ==
    { [x |-> 0, y |-> 0, z |-> 0, yaw |-> 0],
      [x |-> 3, y |-> -2, z |-> 1, yaw |-> 0],
      [x |-> 0, y |-> 0, z |-> 0, yaw |-> 1] }

Identity == [x |-> 0, y |-> 0, z |-> 0, yaw |-> 0]

(* Wheel positions of the physics control, in centimetres *)
WheelSets ==
    { << [x |-> 140, y |-> -80, z |-> 35], [x |-> 140, y |-> 80, z |-> 35] >>,
      << [x |-> -130, y |-> 75, z |-> 0], [x |-> 0, y |-> -75, z |-> -20] >>,
      << [x |-> 7, y |-> 33, z |-> 250] >> }

NoEvent == [kind |-> "init", manual |-> FALSE, cmd |-> VehicleControl, data |-> FALSE]

Count(s, c) == Cardinality({i \in 1..Len(s) : s[i] = c})

-----------------------------------------------------------------------------
(* Calls on the collaborators (node, carla actor, callback, base class) *)

Call(name) == <<"call", name>>
Publish(publisher) == <<"publish", publisher>>
DestroySubscription(sub) == <<"destroy_subscription", sub>>
DestroyPublisher(pub) == <<"destroy_publisher", pub>>

(* self.get_id() *)
get_id == uid

-----------------------------------------------------------------------------
(* __init__ *)

Init ==
    /\ vehicle_info_published = FALSE
    /\ vehicle_control_override = FALSE
    /\ channels = Subscriptions \cup Publishers
    /\ uid \in Uids
    /\ ego_transform \in Transforms
    /\ wheels \in WheelSets
    /\ carla_control = VehicleControl
    /\ autopilot = FALSE
    /\ callback_arg = 0
    /\ calls = <<>>
    /\ sent = [p \in Publishers |-> 0]
    /\ status_msg = VehicleControl
    /\ canbus_msg = [steering |-> 0, throttle |-> 0, brake |-> 0, checksum |-> 0]
    /\ info_msg = <<>>
    /\ n_update = 0
    /\ n_cmd = 0
    /\ n_apply = 0
    /\ n_callback = 0
    /\ base_destroyed = FALSE
    /\ event = NoEvent
    /\ enables = <<>>
    /\ last_accepted = VehicleControl

-----------------------------------------------------------------------------
(* control_command_override *)

(* mutant: the override flag can only be switched on *)
NewOverride_Sticky(enable) == vehicle_control_override \/ enable

NewOverride(enable) == enable

(* the delivered values, repeats merged, the last MaxHistory of them kept *)
Delivered(history, enable) ==
    LET h == IF history # <<>> /\ history[Len(history)] = enable
             THEN history
             ELSE Append(history, enable)
    IN IF Len(h) > MaxHistory THEN Tail(h) ELSE h

control_command_override(enable) ==
    /\ "control_override_subscriber" \in channels
    /\ vehicle_control_override' = NewOverride(enable)
    /\ calls' = <<>>
    /\ event' = [NoEvent EXCEPT !.kind = "override", !.data = enable]
    /\ enables' = Delivered(enables, enable)
    /\ UNCHANGED <<vehicle_info_published, channels, uid, ego_transform, wheels,
                   carla_control, autopilot, callback_arg, sent, status_msg,
                   canbus_msg, info_msg, n_update, n_cmd, n_apply, n_callback,
                   base_destroyed, last_accepted>>

-----------------------------------------------------------------------------
(* control_command_updated *)

(* mutant: the gear of the message is not copied *)
ToVehicleControl_NoGear(ros_vehicle_control) ==
    [VehicleControl EXCEPT
        !.hand_brake = ros_vehicle_control.hand_brake,
        !.brake = ros_vehicle_control.brake,
        !.steer = ros_vehicle_control.steer,
        !.throttle = ros_vehicle_control.throttle,
        !.reverse = ros_vehicle_control.reverse,
        !.manual_gear_shift = ros_vehicle_control.manual_gear_shift]

(* the carla.VehicleControl built from the ROS message *)
ToVehicleControl(ros_vehicle_control) ==
    [VehicleControl EXCEPT
        !.hand_brake = ros_vehicle_control.hand_brake,
        !.brake = ros_vehicle_control.brake,
        !.steer = ros_vehicle_control.steer,
        !.throttle = ros_vehicle_control.throttle,
        !.reverse = ros_vehicle_control.reverse,
        !.manual_gear_shift = ros_vehicle_control.manual_gear_shift,
        !.gear = ros_vehicle_control.gear]

(* mutant: the channel is not compared with the override flag *)
ControlCommandCalls_NoCheck(manual_override) ==
    <<Call("apply_control"), Call("callback")>>

(* mutant: the callback is called outside the branch that applies *)
ControlCommandCalls_CallbackOnDrop(manual_override) ==
    IF manual_override = vehicle_control_override
    THEN <<Call("apply_control"), Call("callback")>>
    ELSE <<Call("callback")>>

(* the calls the handler makes for a command of the given channel *)
ControlCommandCalls(manual_override) ==
    IF manual_override = vehicle_control_override
    THEN <<Call("apply_control"), Call("callback")>>
    ELSE <<>>

ControlChannel(manual_override) ==
    IF manual_override THEN "manual_control_subscriber" ELSE "control_subscriber"

control_command_updated(ros_vehicle_control, manual_override) ==
    /\ ControlChannel(manual_override) \in channels
    /\ n_cmd < MaxCmds
    /\ LET cs == ControlCommandCalls(manual_override)
       IN /\ calls' = cs
          /\ n_apply' = n_apply + Count(cs, Call("apply_control"))
          /\ n_callback' = n_callback + Count(cs, Call("callback"))
          /\ carla_control' = IF Count(cs, Call("apply_control")) > 0
                              THEN ToVehicleControl(ros_vehicle_control)
                              ELSE carla_control
          /\ callback_arg' = IF Count(cs, Call("callback")) > 0
                             THEN get_id
                             ELSE callback_arg
    /\ n_cmd' = n_cmd + 1
    /\ event' = [NoEvent EXCEPT !.kind = "control", !.manual = manual_override,
                                !.cmd = ros_vehicle_control]
    /\ last_accepted' = IF manual_override = vehicle_control_override
                        THEN ros_vehicle_control
                        ELSE last_accepted
    /\ UNCHANGED <<vehicle_info_published, vehicle_control_override, channels, uid,
                   ego_transform, wheels, autopilot, sent, status_msg, canbus_msg,
                   info_msg, n_update, base_destroyed, enables>>

-----------------------------------------------------------------------------
(* enable_autopilot_updated *)

(* mutant: the autopilot is left alone while the manual override is on *)
enable_autopilot_updated_Guarded(enable_auto_pilot) ==
    /\ "enable_autopilot_subscriber" \in channels
    /\ calls' = IF vehicle_control_override
                THEN <<Call("logdebug")>>
                ELSE <<Call("logdebug"), Call("set_autopilot")>>
    /\ autopilot' = IF vehicle_control_override THEN autopilot ELSE enable_auto_pilot
    /\ event' = [NoEvent EXCEPT !.kind = "autopilot", !.data = enable_auto_pilot]
    /\ UNCHANGED <<vehicle_info_published, vehicle_control_override, channels, uid,
                   ego_transform, wheels, carla_control, callback_arg, sent,
                   status_msg, canbus_msg, info_msg, n_update, n_cmd, n_apply,
                   n_callback, base_destroyed, enables, last_accepted>>

(* mutant: the handler also stores the flag as the override flag *)
enable_autopilot_updated_SetsOverride(enable_auto_pilot) ==
    /\ "enable_autopilot_subscriber" \in channels
    /\ calls' = <<Call("logdebug"), Call("set_autopilot")>>
    /\ autopilot' = enable_auto_pilot
    /\ vehicle_control_override' = enable_auto_pilot
    /\ event' = [NoEvent EXCEPT !.kind = "autopilot", !.data = enable_auto_pilot]
    /\ UNCHANGED <<vehicle_info_published, channels, uid,
                   ego_transform, wheels, carla_control, callback_arg, sent,
                   status_msg, canbus_msg, info_msg, n_update, n_cmd, n_apply,
                   n_callback, base_destroyed, enables, last_accepted>>

enable_autopilot_updated(enable_auto_pilot) ==
    /\ "enable_autopilot_subscriber" \in channels
    /\ calls' = <<Call("logdebug"), Call("set_autopilot")>>
    /\ autopilot' = enable_auto_pilot
    /\ event' = [NoEvent EXCEPT !.kind = "autopilot", !.data = enable_auto_pilot]
    /\ UNCHANGED <<vehicle_info_published, vehicle_control_override, channels, uid,
                   ego_transform, wheels, carla_control, callback_arg, sent,
                   status_msg, canbus_msg, info_msg, n_update, n_cmd, n_apply,
                   n_callback, base_destroyed, enables, last_accepted>>

-----------------------------------------------------------------------------
(* send_vehicle_msgs: the wheel positions of the static descriptor *)

(* cos and sin of a yaw given in quarter turns *)
CosQ(q) == CASE q = 0 -> 1 [] q = 1 -> 0 [] q = 2 -> -1 [] OTHER -> 0
SinQ(q) == CASE q = 0 -> 0 [] q = 1 -> 1 [] q = 2 -> 0 [] OTHER -> -1

(* carla.Transform.get_inverse_matrix() of a transform with pitch = roll = 0 *)
InverseMatrix(t) ==
    LET cy == CosQ(t.yaw)
        sy == SinQ(t.yaw)
    IN << << Rat(cy), Rat(sy), Rat(0), Rat(-(cy * t.x + sy * t.y)) >>,
          << Rat(-sy), Rat(cy), Rat(0), Rat(-(cy * t.y - sy * t.x)) >>,
          << Rat(0), Rat(0), Rat(1), Rat(-t.z) >>,
          << Rat(0), Rat(0), Rat(0), Rat(1) >> >>

(* numpy.matmul of a 4x4 matrix and a vector of 4 *)
MatMul(M, v) ==
    [i \in 1..4 |->
        RatAdd(RatAdd(RatMul(M[i][1], v[1]), RatMul(M[i][2], v[2])),
               RatAdd(RatMul(M[i][3], v[3]), RatMul(M[i][4], v[4])))]

(* mutant: the y component is not negated *)
WheelPosition_NoFlip(wheel, t) ==
    LET inv_T == InverseMatrix(t)
        wheel_pos_in_map == << RatDiv(Rat(wheel.x), 100),
                               RatDiv(Rat(wheel.y), 100),
                               RatDiv(Rat(wheel.z), 100),
                               Rat(1) >>
        wheel_pos_in_ego_vehicle == MatMul(inv_T, wheel_pos_in_map)
    IN [x |-> wheel_pos_in_ego_vehicle[1],
        y |-> wheel_pos_in_ego_vehicle[2],
        z |-> wheel_pos_in_ego_vehicle[3]]

(* wheel_info.position of one wheel, in metres *)
WheelPosition(wheel, t) ==
    LET inv_T == InverseMatrix(t)
        wheel_pos_in_map == << RatDiv(Rat(wheel.x), 100),
                               RatDiv(Rat(wheel.y), 100),
                               RatDiv(Rat(wheel.z), 100),
                               Rat(1) >>
        wheel_pos_in_ego_vehicle == MatMul(inv_T, wheel_pos_in_map)
    IN [x |-> wheel_pos_in_ego_vehicle[1],
        y |-> RatNeg(wheel_pos_in_ego_vehicle[2]),
        z |-> wheel_pos_in_ego_vehicle[3]]

(* vehicle_info.wheels *)
VehicleInfoWheels ==
    [i \in 1..Len(wheels) |-> WheelPosition(wheels[i], ego_transform)]

-----------------------------------------------------------------------------
(* send_vehicle_msgs and update *)

(* vehicle_status.control, read from carla_actor.get_control() *)
StatusControl ==
    [throttle |-> carla_control.throttle,
     steer |-> carla_control.steer,
     brake |-> carla_control.brake,
     hand_brake |-> carla_control.hand_brake,
     reverse |-> carla_control.reverse,
     gear |-> carla_control.gear,
     manual_gear_shift |-> carla_control.manual_gear_shift]

(* the Canbus message built from the status message *)
CanbusOf(vehicle_status) ==
    [steering |-> vehicle_status.steer,
     throttle |-> vehicle_status.throttle,
     brake |-> vehicle_status.brake,
     checksum |-> 1]

(* mutant: the published flag is not tested *)
InfoDue_Always == TRUE

(* the static descriptor is sent only once *)
InfoDue == ~vehicle_info_published

(* mutant: the pose is published inside the send-once branch *)
SendVehicleMsgsCalls_PoseOnce ==
    << Publish("vehicle_status_publisher"),
       Publish("canbus_publisher") >>
    \o (IF ~vehicle_info_published
        THEN << Publish("ego_location_publisher"), Publish("vehicle_info_publisher") >>
        ELSE <<>>)

(* the publish calls of send_vehicle_msgs, in order *)
SendVehicleMsgsCalls ==
    << Publish("vehicle_status_publisher"),
       Publish("canbus_publisher"),
       Publish("ego_location_publisher") >>
    \o (IF InfoDue THEN << Publish("vehicle_info_publisher") >> ELSE <<>>)

(* the calls of update, in order *)
UpdateCalls == SendVehicleMsgsCalls \o << Call("Vehicle.update") >>

update ==
    /\ ~base_destroyed
    /\ n_update < MaxFrames
    /\ LET cs == UpdateCalls
       IN /\ calls' = cs
          /\ sent' = [p \in Publishers |-> sent[p] + Count(cs, Publish(p))]
          /\ info_msg' = IF Count(cs, Publish("vehicle_info_publisher")) > 0
                         THEN VehicleInfoWheels
                         ELSE info_msg
    /\ status_msg' = StatusControl
    /\ canbus_msg' = CanbusOf(StatusControl)
    /\ vehicle_info_published' = (IF InfoDue THEN TRUE ELSE vehicle_info_published)
    /\ n_update' = n_update + 1
    /\ event' = [NoEvent EXCEPT !.kind = "update"]
    /\ UNCHANGED <<vehicle_control_override, channels, uid, ego_transform, wheels,
                   carla_control, autopilot, callback_arg, n_cmd, n_apply,
                   n_callback, base_destroyed, enables, last_accepted>>

-----------------------------------------------------------------------------
(* destroy *)

DestroyCalls ==
    << Call("logdebug"),
       DestroySubscription("control_subscriber"),
       DestroySubscription("enable_autopilot_subscriber"),
       DestroySubscription("control_override_subscriber"),
       DestroySubscription("manual_control_subscriber"),
       DestroyPublisher("vehicle_status_publisher"),
       DestroyPublisher("vehicle_info_publisher"),
       Call("Vehicle.destroy") >>

(* the channels the calls of destroy release *)
Released(cs) ==
    { cs[i][2] : i \in { j \in 1..Len(cs) :
                           cs[j][1] \in {"destroy_subscription", "destroy_publisher"} } }

destroy ==
    /\ ~base_destroyed
    /\ calls' = DestroyCalls
    /\ channels' = channels \ Released(DestroyCalls)
    /\ base_destroyed' = (Count(DestroyCalls, Call("Vehicle.destroy")) > 0)
    /\ event' = [NoEvent EXCEPT !.kind = "destroy"]
    /\ UNCHANGED <<vehicle_info_published, vehicle_control_override, uid,
                   ego_transform, wheels, carla_control, autopilot, callback_arg,
                   sent, status_msg, canbus_msg, info_msg, n_update, n_cmd, n_apply,
                   n_callback, enables, last_accepted>>

-----------------------------------------------------------------------------
(* The relay is driven by the node: inbound messages, frames and teardown *)

Next ==
    \/ \E enable \in BOOLEAN : control_command_override(enable)
    \/ \E c \in Commands, m \in BOOLEAN : control_command_updated(c, m)
    \/ \E enable \in BOOLEAN : enable_autopilot_updated(enable)
    \/ update
    \/ destroy

Spec == Init /\ [][Next]_vars

-----------------------------------------------------------------------------
(* Properties *)

Applied == Count(calls, Call("apply_control")) > 0
LastEnable == IF enables = <<>> THEN FALSE ELSE enables[Len(enables)]
SameControl(a, b) ==
    /\ a.throttle = b.throttle
    /\ a.steer = b.steer
    /\ a.brake = b.brake
    /\ a.hand_brake = b.hand_brake
    /\ a.reverse = b.reverse
    /\ a.gear = b.gear
    /\ a.manual_gear_shift = b.manual_gear_shift

(* C1: a command is applied to the vehicle exactly when its channel (manual *)
(* or primary) equals the override flag at the time it is received: with   *)
(* the flag false a manual command is never applied and a primary command  *)
(* always is, with the flag true the reverse.                               *)
C1_RoutingByOverride ==
    [][event'.kind = "control" =>
         IF event'.manual = vehicle_control_override
         THEN /\ n_apply' = n_apply + 1
              /\ SameControl(carla_control', event'.cmd)
         ELSE /\ n_apply' = n_apply
              /\ carla_control' = carla_control]_vars

C1_Witness ==
    /\ event.kind = "control"
    /\ event.manual
    /\ vehicle_control_override
    /\ Applied
    /\ n_cmd = 3
    /\ n_apply = 1
    /\ n_update > 0

(* C2: the static descriptor is published exactly once over one or more    *)
(* update calls: the published flag is false before the first update, true *)
(* from the first update on, and no later update publishes the descriptor. *)
C2_InfoPublishedOnce ==
    /\ vehicle_info_published = (n_update > 0)
    /\ sent["vehicle_info_publisher"] = (IF n_update > 0 THEN 1 ELSE 0)
    /\ (event.kind = "update" /\ n_update > 1
          => Count(calls, Publish("vehicle_info_publisher")) = 0)
    /\ (event.kind = "update" /\ n_update = 1
          => Count(calls, Publish("vehicle_info_publisher")) = 1)

C2_Witness ==
    /\ event.kind = "update"
    /\ n_update = 3
    /\ n_cmd > 0
    /\ enables # <<>>
    /\ sent["vehicle_info_publisher"] = 1

(* C3: an applied command calls the control-applied callback exactly once, *)
(* after apply_control and with the vehicle's id; a dropped command makes  *)
(* no call; the callbacks made always number the commands applied.         *)
C3_CallbackPerApplied ==
    /\ n_callback = n_apply
    /\ (n_callback > 0 => callback_arg = uid)
    /\ (event.kind = "control" =>
          IF event.manual = vehicle_control_override
          THEN calls = <<Call("apply_control"), Call("callback")>>
          ELSE calls = <<>>)

C3_Witness ==
    /\ event.kind = "control"
    /\ ~event.manual
    /\ vehicle_control_override
    /\ calls = <<>>
    /\ n_callback = 2
    /\ n_cmd = 3
    /\ uid = 2

(* C4: every command is routed by the value of the override-enable message *)
(* delivered last (false when none was delivered yet), also after the      *)
(* value went false, true, false: the override flag always equals that     *)
(* value, and an applied command is held by the vehicle at once.           *)
C4_RoutedByLastEnable ==
    /\ vehicle_control_override = LastEnable
    /\ (event.kind = "control" =>
          /\ Applied = (event.manual = LastEnable)
          /\ (Applied => SameControl(carla_control, event.cmd)))

C4_Witness ==
    /\ enables = <<FALSE, TRUE, FALSE>>
    /\ event.kind = "control"
    /\ ~event.manual
    /\ Applied
    /\ n_apply = 1
    /\ n_cmd = 3

(* C5: after destroy every subscription and every publisher the            *)
(* constructor created is released, and the base class's destroy is the    *)
(* last call made.                                                          *)
C5_AllChannelsReleased ==
    event.kind = "destroy" =>
        /\ channels = {}
        /\ base_destroyed
        /\ calls[Len(calls)] = Call("Vehicle.destroy")

(* C6: every update publishes exactly one status, one canbus and one pose  *)
(* message, whatever the two flags are, so after n updates n messages of   *)
(* each kind were published; the base class's update is called last.       *)
C6_OneOfEachPerFrame ==
    /\ sent["vehicle_status_publisher"] = n_update
    /\ sent["canbus_publisher"] = n_update
    /\ sent["ego_location_publisher"] = n_update
    /\ (event.kind = "update" =>
          /\ Count(calls, Publish("vehicle_status_publisher")) = 1
          /\ Count(calls, Publish("canbus_publisher")) = 1
          /\ Count(calls, Publish("ego_location_publisher")) = 1
          /\ Count(calls, Call("Vehicle.update")) = 1
          /\ calls[Len(calls)] = Call("Vehicle.update"))

C6_Witness ==
    /\ event.kind = "update"
    /\ n_update = 2
    /\ vehicle_control_override
    /\ vehicle_info_published
    /\ sent["ego_location_publisher"] = 2

(* C7: the override flag is false at construction and only the             *)
(* override-enable message changes it: a control command (applied or       *)
(* dropped), an autopilot-enable message and an update leave it unchanged. *)
C7_OverrideOnlyByEnable ==
    /\ (event.kind = "init" => vehicle_control_override = FALSE)
    /\ [][event'.kind # "override" =>
            vehicle_control_override' = vehicle_control_override]_vars

C7_Witness ==
    /\ vehicle_control_override
    /\ event.kind = "autopilot"
    /\ ~event.data
    /\ n_apply = 1
    /\ n_cmd = 3
    /\ n_update > 0

(* C8: every autopilot-enable message makes exactly one set_autopilot call *)
(* with the boolean of the message, whatever the override flag and the     *)
(* published flag are; it applies no control and calls no callback.        *)
C8_AutopilotUnconditional ==
    [][event'.kind = "autopilot" =>
         /\ Count(calls', Call("set_autopilot")) = 1
         /\ autopilot' = event'.data
         /\ Count(calls', Call("apply_control")) = 0
         /\ Count(calls', Call("callback")) = 0
         /\ carla_control' = carla_control
         /\ n_apply' = n_apply
         /\ n_callback' = n_callback]_vars

C8_Witness ==
    /\ event.kind = "autopilot"
    /\ event.data
    /\ autopilot
    /\ vehicle_control_override
    /\ vehicle_info_published
    /\ Count(calls, Call("set_autopilot")) = 1

(* C9: with the identity transform of the vehicle, a wheel at (x, y, z)    *)
(* centimetres is published at (x/100, -y/100, z/100) metres, for every    *)
(* wheel of the physics control.                                            *)
C9_WheelPositionIdentity ==
    (vehicle_info_published /\ ego_transform = Identity) =>
        /\ Len(info_msg) = Len(wheels)
        /\ \A i \in 1..Len(wheels) :
             /\ RatEq(info_msg[i].x, <<wheels[i].x, 100>>)
             /\ RatEq(info_msg[i].y, <<-wheels[i].y, 100>>)
             /\ RatEq(info_msg[i].z, <<wheels[i].z, 100>>)

C9_Witness ==
    /\ vehicle_info_published
    /\ ego_transform = Identity
    /\ Len(info_msg) = 2
    /\ wheels[2].y # 0
    /\ wheels[2].x # wheels[2].z
    /\ RatEq(info_msg[2].y, <<-wheels[2].y, 100>>)

(* C10: the control held by the vehicle equals in all seven fields the     *)
(* command accepted last (the initial control when none was accepted), a   *)
(* dropped command leaves it unchanged, and the status and canbus messages *)
(* of an update echo it.                                                    *)
C10_LastAcceptedControl ==
    /\ SameControl(carla_control, last_accepted)
    /\ (event.kind = "update" =>
          /\ SameControl(status_msg, last_accepted)
          /\ canbus_msg.steering = last_accepted.steer
          /\ canbus_msg.throttle = last_accepted.throttle
          /\ canbus_msg.brake = last_accepted.brake)

C10_Witness ==
    /\ event.kind = "update"
    /\ n_cmd = 3
    /\ n_apply = 2
    /\ status_msg.gear = 2
    /\ status_msg.hand_brake
    /\ canbus_msg.brake = 10

====
